---------------------------- MODULE Spec2Model ----------------------------
(***************************************************************************)
(* Duty assignment engine of faculty_duty_app.py: the Faculty Grouping     *)
(* handlers, the feasibility diagnostics, generate_assignments_heuristic   *)
(* (unit catalog, per-slot pre-check, backtracking search, greedy          *)
(* fallback) and the call site that unpacks its result.                    *)
(*                                                                         *)
(* Faculty are the integers 1..n in roster order (the order of             *)
(* faculty_list), n the size of the roster of the session; the order of    *)
(* the integers also stands for the order of                               *)
(* the names that sorted() uses.  A date is an integer; the k-th exam day  *)
(* of a schedule carries date k, so dates are unique within a schedule     *)
(* (data model, ExamDay).  A group is the set of faculty picked in the     *)
(* multiselect; the order of the picks only shows in display strings.      *)
(***************************************************************************)
EXTENDS Integers, Sequences, FiniteSets, TLC

\* ---------------------------------------------------------------- bounds
NumFaculty == 3
MaxQuota == 2
MaxDays == 2
MaxReq == 2
MaxUnavail == 1
MaxGroups == 2
MaxRows == 2
MaxManualReq == 1
ScenarioFaculty == 5
ScenarioQuota == 3

Dates == 1..MaxDays
Labels == {"first_half", "second_half"}
Shifts == <<"First Half", "Second Half">>

VARIABLES
    max_duties_dict,        \* st.session_state.max_duties_dict
    faculty_unavailability, \* st.session_state.faculty_unavailability
    faculty_groups,         \* st.session_state.faculty_groups
    exam_schedule,          \* st.session_state.exam_schedule
    pc,                     \* where the Generate Assignments run ended
    diag,                   \* what the feasibility diagnostics computed
    solver_invoked,         \* generate_assignments_heuristic was called
    ret,                    \* what generate_assignments_heuristic returned
    df,                     \* the table handed to validate_assignment_constraints
    validation              \* what validate_assignment_constraints returned

vars == <<max_duties_dict, faculty_unavailability, faculty_groups,
          exam_schedule, pc, diag, solver_invoked, ret, df, validation>>

\* the roster of the session: max_duties_dict has one entry per faculty
Faculty == DOMAIN max_duties_dict

\* faculty_list = st.session_state.faculty_df['faculty'].tolist()
faculty_list == [i \in 1..Cardinality(Faculty) |-> i]

\* ------------------------------------------------------- Python built-ins
Range(s) == {s[i] : i \in 1..Len(s)}

RECURSIVE SumSeq(_)
SumSeq(s) == IF s = <<>> THEN 0 ELSE Head(s) + SumSeq(Tail(s))

RECURSIVE Flatten(_)
Flatten(ss) == IF ss = <<>> THEN <<>> ELSE Head(ss) \o Flatten(Tail(ss))

\* sorted(group): the members in ascending order
RECURSIVE SortedTuple(_)
SortedTuple(S) ==
    IF S = {} THEN <<>>
    ELSE LET m == CHOOSE x \in S : \A y \in S : x <= y
         IN <<m>> \o SortedTuple(S \ {m})

\* sorted(xs, key=...): stable, ascending; s is a sequence of [key, val]
RECURSIVE InsertSorted(_, _)
InsertSorted(sorted, e) ==
    IF sorted = <<>> THEN <<e>>
    ELSE IF Head(sorted).key <= e.key
         THEN <<Head(sorted)>> \o InsertSorted(Tail(sorted), e)
         ELSE <<e>> \o sorted

RECURSIVE SortedByKey(_)
SortedByKey(s) ==
    IF s = <<>> THEN <<>>
    ELSE InsertSorted(SortedByKey(SubSeq(s, 1, Len(s) - 1)), s[Len(s)])

\* itertools.combinations(xs, r): the r-subsequences in index order
RECURSIVE combinations(_, _)
combinations(xs, r) ==
    IF r = 0 THEN << <<>> >>
    ELSE IF Len(xs) < r THEN <<>>
    ELSE LET rest == combinations(Tail(xs), r - 1)
         IN [i \in 1..Len(rest) |-> <<Head(xs)>> \o rest[i]]
            \o combinations(Tail(xs), r)

label_of(shift) == IF shift = "First Half" THEN "first_half" ELSE "second_half"

\* ------------------------------------------- feasibility diagnostics
\* total_required = sum(day['first_half'] + day['second_half'] ...)
total_required ==
    SumSeq([i \in 1..Len(exam_schedule) |->
               exam_schedule[i].first_half + exam_schedule[i].second_half])

\* total_available = sum(int(max_duties_dict.get(f, 0)) for f in faculty_list)
total_available ==
    SumSeq([i \in 1..Len(faculty_list) |-> max_duties_dict[faculty_list[i]]])

\* available_faculty of the slot-by-slot check
slot_available_faculty(date, label) ==
    SelectSeq(faculty_list,
              LAMBDA f : /\ date \notin faculty_unavailability[f][label]
                         /\ max_duties_dict[f] > 0)

slot_problems ==
    \E i \in 1..Len(exam_schedule) : \E label \in Labels :
        exam_schedule[i][label]
            > Len(slot_available_faculty(exam_schedule[i].date, label))

\* available_faculty of the per-day check
day_available_faculty(date) ==
    SelectSeq(faculty_list,
              LAMBDA f : /\ date \notin faculty_unavailability[f]["first_half"]
                         /\ date \notin faculty_unavailability[f]["second_half"]
                         /\ max_duties_dict[f] > 0)

day_problems ==
    \E i \in 1..Len(exam_schedule) :
        exam_schedule[i].first_half + exam_schedule[i].second_half
            > Len(day_available_faculty(exam_schedule[i].date))

\* variant: the total-capacity branch is missing
feasibility_verdict_no_total(required, available, slotp, dayp) ==
    IF slotp \/ dayp THEN "slot_or_day" ELSE "passed"

\* variant: the elif tests slot_problems only
feasibility_verdict_no_day(required, available, slotp, dayp) ==
    IF required > available THEN "total_exceeds"
    ELSE IF slotp THEN "slot_or_day"
    ELSE "passed"

\* the if / elif / else that ends the diagnostics: which branch is taken
feasibility_verdict(required, available, slotp, dayp) ==
    IF required > available THEN "total_exceeds"
    ELSE IF slotp \/ dayp THEN "slot_or_day"
    ELSE "passed"

\* one line the diagnostics write: what kind of line and the values its
\* text is formatted from
DiagLine(kind, date, shift, required, available) ==
    [kind |-> kind, date |-> date, shift |-> shift,
     required |-> required, available |-> available]

\* the lines of the slot-by-slot loop for one day: the st.markdown of every
\* half and the st.warning of a half that needs more than are available
slot_lines(day) ==
    Flatten([k \in 1..2 |->
        LET required == day[label_of(Shifts[k])]
            available == Len(slot_available_faculty(day.date, label_of(Shifts[k])))
        IN <<DiagLine("slot", day.date, Shifts[k], required, available)>>
           \o IF required > available
              THEN <<DiagLine("slot_warning", day.date, Shifts[k],
                              required, available)>>
              ELSE <<>>])

\* the lines of the per-day loop for one day: st.markdown, then st.error
day_lines(day) ==
    LET required_total == day.first_half + day.second_half
        available == Len(day_available_faculty(day.date))
    IN <<DiagLine("day", day.date, "", required_total, available)>>
       \o IF required_total > available
          THEN <<DiagLine("day_error", day.date, "", required_total, available)>>
          ELSE <<>>

\* everything the diagnostics write, in the order it is written: the two
\* totals, the slot loop, the day loop, then the line of the branch taken
diagnostics_output ==
    <<DiagLine("total_required", 0, "", total_required, 0),
      DiagLine("total_available", 0, "", 0, total_available)>>
    \o Flatten([i \in 1..Len(exam_schedule) |-> slot_lines(exam_schedule[i])])
    \o Flatten([i \in 1..Len(exam_schedule) |-> day_lines(exam_schedule[i])])
    \o <<DiagLine(feasibility_verdict(total_required, total_available,
                                      slot_problems, day_problems),
                  0, "", total_required, total_available)>>

\* ------------------------------------ generate_assignments_heuristic
\* slots: (date, shift, required) of every half with required > 0
day_slots(day) ==
    SelectSeq([k \in 1..2 |-> [date |-> day.date, shift |-> Shifts[k],
                               required |-> day[label_of(Shifts[k])]]],
              LAMBDA s : s.required > 0)

slots == Flatten([i \in 1..Len(exam_schedule) |-> day_slots(exam_schedule[i])])

all_groups == [i \in 1..Len(faculty_groups) |-> SortedTuple(faculty_groups[i])]

grouped == UNION Range(faculty_groups)

singletons == SelectSeq(faculty_list, LAMBDA f : f \notin grouped)

assign_units == all_groups \o [i \in 1..Len(singletons) |-> <<singletons[i]>>]

other_shift(shift) == IF shift = "First Half" THEN "Second Half" ELSE "First Half"

\* variant: only the first member of the unit is tested
unit_available_first_member(unit, date, shift, duty_counts, assigned_slots) ==
    \A i \in 1..Len(unit) :
        LET f == unit[1] IN
        /\ date \notin faculty_unavailability[f][label_of(shift)]
        /\ ~(duty_counts[f] >= max_duties_dict[f])
        /\ <<date, other_shift(shift), f>> \notin assigned_slots

\* variant: the quota test is missing
unit_available_no_quota(unit, date, shift, duty_counts, assigned_slots) ==
    \A i \in 1..Len(unit) :
        LET f == unit[i] IN
        /\ date \notin faculty_unavailability[f][label_of(shift)]
        /\ <<date, other_shift(shift), f>> \notin assigned_slots

\* variant: the other-half test is missing
unit_available_no_other_half(unit, date, shift, duty_counts, assigned_slots) ==
    \A i \in 1..Len(unit) :
        LET f == unit[i] IN
        /\ date \notin faculty_unavailability[f][label_of(shift)]
        /\ ~(duty_counts[f] >= max_duties_dict[f])

\* variant: the unavailability test is missing
unit_available_no_unavailability(unit, date, shift, duty_counts, assigned_slots) ==
    \A i \in 1..Len(unit) :
        LET f == unit[i] IN
        /\ ~(duty_counts[f] >= max_duties_dict[f])
        /\ <<date, other_shift(shift), f>> \notin assigned_slots

unit_available(unit, date, shift, duty_counts, assigned_slots) ==
    \A i \in 1..Len(unit) :
        LET f == unit[i] IN
        /\ date \notin faculty_unavailability[f][label_of(shift)]
        /\ ~(duty_counts[f] >= max_duties_dict[f])
        /\ <<date, other_shift(shift), f>> \notin assigned_slots

\* the working state of a search: duty_counts, assigned_slots, assignment
fresh_state ==
    [duty_counts |-> [f \in Faculty |-> 0], assigned_slots |-> {},
     assignment |-> <<>>]

\* variant: the commit does not record the slot in assigned_slots
RECURSIVE assign_unit_forgets_slot(_, _, _, _)
assign_unit_forgets_slot(unit, date, shift, st) ==
    IF unit = <<>> THEN st
    ELSE assign_unit_forgets_slot(Tail(unit), date, shift,
             [st EXCEPT !.duty_counts[Head(unit)] = @ + 1])

RECURSIVE assign_unit(_, _, _, _)
assign_unit(unit, date, shift, st) ==
    IF unit = <<>> THEN st
    ELSE assign_unit(Tail(unit), date, shift,
             [st EXCEPT !.duty_counts[Head(unit)] = @ + 1,
                        !.assigned_slots = @ \cup {<<date, shift, Head(unit)>>}])

\* variant: the undo forgets to decrement duty_counts
RECURSIVE unassign_unit_keeps_count(_, _, _, _)
unassign_unit_keeps_count(unit, date, shift, st) ==
    IF unit = <<>> THEN st
    ELSE unassign_unit_keeps_count(Tail(unit), date, shift,
             [st EXCEPT !.assigned_slots = @ \ {<<date, shift, Head(unit)>>}])

\* variant: the undo decrements duty_counts and leaves the slot marked
RECURSIVE unassign_unit_keeps_slot(_, _, _, _)
unassign_unit_keeps_slot(unit, date, shift, st) ==
    IF unit = <<>> THEN st
    ELSE unassign_unit_keeps_slot(Tail(unit), date, shift,
             [st EXCEPT !.duty_counts[Head(unit)] = @ - 1])

RECURSIVE unassign_unit(_, _, _, _)
unassign_unit(unit, date, shift, st) ==
    IF unit = <<>> THEN st
    ELSE unassign_unit(Tail(unit), date, shift,
             [st EXCEPT !.duty_counts[Head(unit)] = @ - 1,
                        !.assigned_slots = @ \ {<<date, shift, Head(unit)>>}])

\* variant: only the first unit of the combination is undone
unassign_units_of_first_only(units, date, shift, st) ==
    IF units = <<>> THEN st
    ELSE unassign_unit(Head(units), date, shift, st)

\* for u in units: assign_unit(u, ...)   /   unassign_unit(u, ...)
RECURSIVE assign_units_of(_, _, _, _)
assign_units_of(units, date, shift, st) ==
    IF units = <<>> THEN st
    ELSE assign_units_of(Tail(units), date, shift,
                         assign_unit(Head(units), date, shift, st))

RECURSIVE unassign_units_of(_, _, _, _)
unassign_units_of(units, date, shift, st) ==
    IF units = <<>> THEN st
    ELSE unassign_units_of(Tail(units), date, shift,
                           unassign_unit(Head(units), date, shift, st))

\* variant: the catalog is not filtered by availability
available_units_unfiltered(date, shift, st) == assign_units

\* [u for u in assign_units if unit_available(u, date, shift, ...)]
available_units(date, shift, st) ==
    SelectSeq(assign_units,
              LAMBDA u : unit_available(u, date, shift,
                                        st.duty_counts, st.assigned_slots))

unit_load(u, duty_counts) == SumSeq([i \in 1..Len(u) |-> duty_counts[u[i]]])

\* sorted(available_units, key=lambda u: sum(duty_counts.get(f, 0) for f in u))
sorted_by_load(units, duty_counts) ==
    LET keyed == [i \in 1..Len(units) |->
                     [key |-> unit_load(units[i], duty_counts), val |-> units[i]]]
        srt == SortedByKey(keyed)
    IN [i \in 1..Len(srt) |-> srt[i].val]

slot_difficulty(slot, st) == Len(available_units(slot.date, slot.shift, st))

\* the per-slot pre-check: some slot has fewer available units than required
infeasible ==
    \E i \in 1..Len(slots) : slot_difficulty(slots[i], fresh_state) < slots[i].required

\* variant: the slots are left in schedule order
slots_sorted_schedule_order == slots

\* sorted(slots, key=lambda s: slot_difficulty(s, temp_duty_counts, ...))
slots_sorted ==
    LET keyed == [i \in 1..Len(slots) |->
                     [key |-> slot_difficulty(slots[i], fresh_state), val |-> slots[i]]]
        srt == SortedByKey(keyed)
    IN [i \in 1..Len(srt) |-> srt[i].val]

\* variant: overlapping units are never rejected
has_duplicates_never(flat) == FALSE
has_duplicates(flat) == Cardinality(Range(flat)) # Len(flat)

\* backtrack(slot_idx, ...) with its loop over the combinations; the result
\* is the return value and the state the call leaves behind
RECURSIVE backtrack(_, _, _)
RECURSIVE try_combinations(_, _, _, _, _)
backtrack(slot_idx, slts, st) ==
    IF slot_idx = Len(slts) + 1 THEN [found |-> TRUE, st |-> st]
    ELSE LET slot == slts[slot_idx]
             avail == sorted_by_load(available_units(slot.date, slot.shift, st),
                                     st.duty_counts)
         IN try_combinations(slot_idx, slts, st,
                             combinations(avail, slot.required), 1)

try_combinations(slot_idx, slts, st, combos, k) ==
    IF k > Len(combos) THEN [found |-> FALSE, st |-> st]
    ELSE LET slot == slts[slot_idx]
             units == combos[k]
             flat == Flatten(units)
         IN IF has_duplicates(flat)
            THEN try_combinations(slot_idx, slts, st, combos, k + 1)
            ELSE LET st1 == assign_units_of(units, slot.date, slot.shift, st)
                     st2 == [st1 EXCEPT !.assignment =
                                Append(@, [date |-> slot.date, shift |-> slot.shift,
                                           faculty |-> flat])]
                     r == backtrack(slot_idx + 1, slts, st2)
                 IN IF r.found THEN r
                    ELSE LET st3 == [r.st EXCEPT !.assignment =
                                        SubSeq(@, 1, Len(@) - 1)]
                             st4 == unassign_units_of(units, slot.date, slot.shift, st3)
                         IN try_combinations(slot_idx, slts, st4, combos, k + 1)

\* the calls of backtrack that backtrack(slot_idx, ...) makes, itself first,
\* in the order they are entered: the state each call was entered with, what
\* it returned and the state it left behind
RECURSIVE backtrack_calls(_, _, _)
RECURSIVE try_combinations_calls(_, _, _, _, _)
backtrack_calls(slot_idx, slts, st) ==
    IF slot_idx = Len(slts) + 1
    THEN [found |-> TRUE, st |-> st,
          calls |-> <<[slot_idx |-> slot_idx, entry |-> st,
                       found |-> TRUE, exit |-> st]>>]
    ELSE LET slot == slts[slot_idx]
             avail == sorted_by_load(available_units(slot.date, slot.shift, st),
                                     st.duty_counts)
             r == try_combinations_calls(slot_idx, slts, st,
                                         combinations(avail, slot.required), 1)
         IN [found |-> r.found, st |-> r.st,
             calls |-> <<[slot_idx |-> slot_idx, entry |-> st,
                          found |-> r.found, exit |-> r.st]>> \o r.calls]

try_combinations_calls(slot_idx, slts, st, combos, k) ==
    IF k > Len(combos) THEN [found |-> FALSE, st |-> st, calls |-> <<>>]
    ELSE LET slot == slts[slot_idx]
             units == combos[k]
             flat == Flatten(units)
         IN IF has_duplicates(flat)
            THEN try_combinations_calls(slot_idx, slts, st, combos, k + 1)
            ELSE LET st1 == assign_units_of(units, slot.date, slot.shift, st)
                     st2 == [st1 EXCEPT !.assignment =
                                Append(@, [date |-> slot.date, shift |-> slot.shift,
                                           faculty |-> flat])]
                     r == backtrack_calls(slot_idx + 1, slts, st2)
                 IN IF r.found THEN r
                    ELSE LET st3 == [r.st EXCEPT !.assignment =
                                        SubSeq(@, 1, Len(@) - 1)]
                             st4 == unassign_units_of(units, slot.date, slot.shift, st3)
                             rest == try_combinations_calls(slot_idx, slts, st4,
                                                            combos, k + 1)
                         IN [found |-> rest.found, st |-> rest.st,
                             calls |-> r.calls \o rest.calls]

\* variant: the choice stops one unit before the requirement
RECURSIVE greedy_choose_one_short(_, _, _, _)
greedy_choose_one_short(units, required, chosen, used) ==
    IF units = <<>> \/ Len(chosen) + 1 >= required THEN chosen
    ELSE LET u == Head(units) IN
         IF Range(u) \cap used = {}
         THEN greedy_choose_one_short(Tail(units), required, Append(chosen, u),
                                      used \cup Range(u))
         ELSE greedy_choose_one_short(Tail(units), required, chosen, used)

\* the greedy choice of one slot: the first `required` available units that
\* share no member with a unit already chosen
RECURSIVE greedy_choose(_, _, _, _)
greedy_choose(units, required, chosen, used) ==
    IF units = <<>> \/ Len(chosen) >= required THEN chosen
    ELSE LET u == Head(units) IN
         IF Range(u) \cap used = {}
         THEN greedy_choose(Tail(units), required, Append(chosen, u),
                            used \cup Range(u))
         ELSE greedy_choose(Tail(units), required, chosen, used)

\* variant: the pass ends at the first slot that falls short
RECURSIVE greedy_pass_stops_at_shortfall(_, _)
greedy_pass_stops_at_shortfall(slts, g) ==
    IF slts = <<>> \/ g.underfilled # <<>> THEN g
    ELSE LET slot == Head(slts)
             avail == sorted_by_load(
                          available_units(slot.date, slot.shift, g.st),
                          g.st.duty_counts)
             chosen == greedy_choose(avail, slot.required, <<>>, {})
             under == IF Len(chosen) < slot.required
                      THEN Append(g.underfilled,
                                  [date |-> slot.date, shift |-> slot.shift,
                                   required |-> slot.required,
                                   assigned |-> Len(chosen)])
                      ELSE g.underfilled
             st1 == assign_units_of(chosen, slot.date, slot.shift, g.st)
             st2 == [st1 EXCEPT !.assignment =
                        Append(@, [date |-> slot.date, shift |-> slot.shift,
                                   faculty |-> Flatten(chosen)])]
         IN greedy_pass_stops_at_shortfall(Tail(slts),
                                           [st |-> st2, underfilled |-> under])

\* the greedy pass over slots_sorted; g carries the search state and the
\* underfilled list
RECURSIVE greedy_pass(_, _)
greedy_pass(slts, g) ==
    IF slts = <<>> THEN g
    ELSE LET slot == Head(slts)
             avail == sorted_by_load(
                          available_units(slot.date, slot.shift, g.st),
                          g.st.duty_counts)
             chosen == greedy_choose(avail, slot.required, <<>>, {})
             under == IF Len(chosen) < slot.required
                      THEN Append(g.underfilled,
                                  [date |-> slot.date, shift |-> slot.shift,
                                   required |-> slot.required,
                                   assigned |-> Len(chosen)])
                      ELSE g.underfilled
             st1 == assign_units_of(chosen, slot.date, slot.shift, g.st)
             st2 == [st1 EXCEPT !.assignment =
                        Append(@, [date |-> slot.date, shift |-> slot.shift,
                                   faculty |-> Flatten(chosen)])]
         IN greedy_pass(Tail(slts), [st |-> st2, underfilled |-> under])

\* pd.DataFrame([{"Date": .., "Shift": .., "Faculty": f} for slot in assignment
\*               for f in slot["faculty"]])
rows_of(assignment) ==
    Flatten([i \in 1..Len(assignment) |->
                [j \in 1..Len(assignment[i].faculty) |->
                    [Date |-> assignment[i].date, Shift |-> assignment[i].shift,
                     Faculty |-> assignment[i].faculty[j]]]])

NoneResult(srch, grdy) ==
    [none |-> TRUE, searched |-> srch, found |-> FALSE, greedy |-> grdy,
     rows |-> <<>>, underfilled |-> <<>>]

\* variant: an exhausted search returns None instead of falling back
generate_assignments_heuristic_no_fallback ==
    IF infeasible THEN NoneResult(FALSE, FALSE)
    ELSE LET b == backtrack(1, slots_sorted, fresh_state) IN
         IF ~b.found THEN NoneResult(TRUE, FALSE)
         ELSE [none |-> FALSE, searched |-> TRUE, found |-> TRUE,
               greedy |-> FALSE, rows |-> rows_of(b.st.assignment),
               underfilled |-> <<>>]

\* the value generate_assignments_heuristic returns
generate_assignments_heuristic ==
    IF infeasible THEN NoneResult(FALSE, FALSE)
    ELSE LET b == backtrack(1, slots_sorted, fresh_state) IN
         IF ~b.found
         THEN LET g == greedy_pass(slots_sorted,
                                   [st |-> fresh_state, underfilled |-> <<>>])
              IN IF g.st.assignment = <<>> THEN NoneResult(TRUE, TRUE)
                 ELSE [none |-> FALSE, searched |-> TRUE, found |-> FALSE,
                       greedy |-> TRUE, rows |-> rows_of(g.st.assignment),
                       underfilled |-> g.underfilled]
         ELSE [none |-> FALSE, searched |-> TRUE, found |-> TRUE,
               greedy |-> FALSE, rows |-> rows_of(b.st.assignment),
               underfilled |-> <<>>]

\* ---------------------------------------------------------- validator
\* one entry of the errors list: the rule that produced it and the values
\* its text is formatted from
Msg(kind, who, date, shift, n, m) ==
    [kind |-> kind, who |-> who, date |-> date, shift |-> shift,
     n |-> n, m |-> m]

\* is_valid = False; errors.append(...)
Emit(v, msg) == [v EXCEPT !.is_valid = FALSE, !.errors = Append(@, msg)]

\* df[(df['Date'] == date) & (df['Shift'] == shift)]['Faculty'].tolist()
assigned_at(table, date, shift) ==
    LET rows == SelectSeq(table, LAMBDA r : r.Date = date /\ r.Shift = shift)
    IN [j \in 1..Len(rows) |-> rows[j].Faculty]

\* 1. Faculty unavailability: one pass over the rows
RECURSIVE check_unavailability(_, _)
check_unavailability(rows, v) ==
    IF rows = <<>> THEN v
    ELSE LET row == Head(rows) IN
         check_unavailability(Tail(rows),
             IF row.Date \in faculty_unavailability[row.Faculty][label_of(row.Shift)]
             THEN Emit(v, Msg("unavailable", <<row.Faculty>>, row.Date,
                              row.Shift, 0, 0))
             ELSE v)

\* 2. Max duties: the rows are counted per faculty, then faculty_list is walked
row_counts(table) ==
    [f \in Faculty |-> Len(SelectSeq(table, LAMBDA r : r.Faculty = f))]

RECURSIVE check_max_duties(_, _, _)
check_max_duties(fs, table, v) ==
    IF fs = <<>> THEN v
    ELSE LET faculty == Head(fs)
             max_allowed == max_duties_dict[faculty]
         IN check_max_duties(Tail(fs), table,
                IF row_counts(table)[faculty] > max_allowed
                THEN Emit(v, Msg("quota", <<faculty>>, 0, "",
                                 row_counts(table)[faculty], max_allowed))
                ELSE v)

\* 3. Group togetherness: for every group, one pass over the rows; a row
\* whose slot holds some but not all members of the group adds an entry
RECURSIVE check_group_rows(_, _, _, _)
check_group_rows(group, rows, table, v) ==
    IF rows = <<>> THEN v
    ELSE LET row == Head(rows)
             assigned == Range(assigned_at(table, row.Date, row.Shift))
         IN check_group_rows(group, Tail(rows), table,
                IF /\ group \cap assigned # {}
                   /\ ~(group \subseteq assigned)
                THEN Emit(v, Msg("group", SortedTuple(group), row.Date,
                                 row.Shift, 0, 0))
                ELSE v)

RECURSIVE check_groups(_, _, _)
check_groups(groups, table, v) ==
    IF groups = <<>> THEN v
    ELSE check_groups(Tail(groups), table,
                      check_group_rows(Head(groups), table, table, v))

\* variant: only the halves that require somebody are compared
RECURSIVE check_required_slots_only(_, _, _)
check_required_slots_only(days, table, v) ==
    IF days = <<>> THEN v
    ELSE LET day == Head(days)
             first == Len(assigned_at(table, day.date, "First Half"))
             second == Len(assigned_at(table, day.date, "Second Half"))
             v1 == IF day.first_half > 0 /\ first # day.first_half
                   THEN Emit(v, Msg("required", <<>>, day.date, "First Half",
                                    first, day.first_half))
                   ELSE v
             v2 == IF day.second_half > 0 /\ second # day.second_half
                   THEN Emit(v1, Msg("required", <<>>, day.date, "Second Half",
                                     second, day.second_half))
                   ELSE v1
         IN check_required_slots_only(Tail(days), table, v2)

\* 4. Required number of faculty per shift: every day of the schedule, first
\* half then second half
RECURSIVE check_required(_, _, _)
check_required(days, table, v) ==
    IF days = <<>> THEN v
    ELSE LET day == Head(days)
             first == Len(assigned_at(table, day.date, "First Half"))
             second == Len(assigned_at(table, day.date, "Second Half"))
             v1 == IF first # day.first_half
                   THEN Emit(v, Msg("required", <<>>, day.date, "First Half",
                                    first, day.first_half))
                   ELSE v
             v2 == IF second # day.second_half
                   THEN Emit(v1, Msg("required", <<>>, day.date, "Second Half",
                                     second, day.second_half))
                   ELSE v1
         IN check_required(Tail(days), table, v2)

\* dates.value_counts(): the dates of the rows with their number of rows,
\* most frequent first
RECURSIVE distinct_dates(_, _)
distinct_dates(rows, seen) ==
    IF rows = <<>> THEN <<>>
    ELSE IF Head(rows).Date \in seen THEN distinct_dates(Tail(rows), seen)
         ELSE <<Head(rows).Date>>
              \o distinct_dates(Tail(rows), seen \cup {Head(rows).Date})

value_counts(rows) ==
    LET ds == distinct_dates(rows, {})
        keyed == [i \in 1..Len(ds) |->
                     [key |-> 0 - Len(SelectSeq(rows, LAMBDA r : r.Date = ds[i])),
                      d |-> ds[i]]]
        sorted == SortedByKey(keyed)
    IN [i \in 1..Len(sorted) |-> [d |-> sorted[i].d, count |-> 0 - sorted[i].key]]

\* 5. No faculty assigned to both shifts on the same day: faculty_list is
\* walked, and for each faculty the dates of its rows
RECURSIVE check_date_counts(_, _, _)
check_date_counts(faculty, date_counts, v) ==
    IF date_counts = <<>> THEN v
    ELSE LET d == Head(date_counts).d
             v1 == IF Head(date_counts).count > 1
                   THEN [Emit(v, Msg("double", <<faculty>>, d, "", 0, 0))
                            EXCEPT !.same_day_double = @ \cup {<<faculty, d>>}]
                   ELSE v
         IN check_date_counts(faculty, Tail(date_counts), v1)

RECURSIVE check_same_day(_, _, _)
check_same_day(fs, table, v) ==
    IF fs = <<>> THEN v
    ELSE LET faculty == Head(fs)
             dates == SelectSeq(table, LAMBDA r : r.Faculty = faculty)
         IN check_same_day(Tail(fs), table,
                check_date_counts(faculty, value_counts(dates), v))

NoValidation == [is_valid |-> TRUE, errors |-> <<>>, same_day_double |-> {}]

\* variant: a check that found something ends the validation
validate_assignment_constraints_first_failure(table) ==
    LET v1 == check_unavailability(table, NoValidation)
        v2 == IF v1.is_valid THEN check_max_duties(faculty_list, table, v1) ELSE v1
        v3 == IF v2.is_valid THEN check_groups(faculty_groups, table, v2) ELSE v2
        v4 == IF v3.is_valid THEN check_required(exam_schedule, table, v3) ELSE v3
    IN IF v4.is_valid THEN check_same_day(faculty_list, table, v4) ELSE v4

\* (is_valid, errors, same_day_double) of validate_assignment_constraints
validate_assignment_constraints(table) ==
    LET v1 == check_unavailability(table, NoValidation)
        v2 == check_max_duties(faculty_list, table, v1)
        v3 == check_groups(faculty_groups, table, v2)
        v4 == check_required(exam_schedule, table, v3)
    IN check_same_day(faculty_list, table, v4)

\* ------------------------------------------------------------ handlers
\* ------------------------------- the call sites' split of the messages
\* `f in err`: the text of a message holds the names of the faculty it is
\* formatted from (a name that happens to occur in other text of the
\* message is not modelled)
name_in_message(f, err) == f \in Range(err.who)

\* any(f in err for f, d in same_day_double)
any_double_named(err, same_day_double) ==
    \E p \in same_day_double : name_in_message(p[1], err)

\* the two lists the loop over errors fills
warning_msgs(v) ==
    SelectSeq(v.errors, LAMBDA err : any_double_named(err, v.same_day_double))
error_msgs(v) ==
    SelectSeq(v.errors, LAMBDA err : ~any_double_named(err, v.same_day_double))

\* the table is stored only after "Continue with Violations" is pressed
needs_override(v) == error_msgs(v) # <<>>

NotRun == [none |-> FALSE, searched |-> FALSE, found |-> FALSE,
           greedy |-> FALSE, rows |-> <<>>, underfilled |-> <<>>]

NoDiag == [total_required |-> 0, total_available |-> 0,
           slot_problems |-> FALSE, day_problems |-> FALSE, verdict |-> "none"]

\* subsets of S with at most k elements
RECURSIVE SubsetsUpTo(_, _)
SubsetsUpTo(S, k) ==
    IF k = 0 THEN {{}}
    ELSE LET P == SubsetsUpTo(S, k - 1)
         IN P \cup {p \cup {x} : p \in P, x \in S}

Marks == (1..NumFaculty) \X Labels \X Dates

Init ==
    /\ max_duties_dict \in [1..NumFaculty -> 0..MaxQuota]
    /\ \E M \in SubsetsUpTo(Marks, MaxUnavail) :
          faculty_unavailability =
              [f \in 1..NumFaculty |-> [l \in Labels |->
                  {d \in Dates : <<f, l, d>> \in M}]]
    /\ \E n \in 1..MaxDays :
          \E req \in [1..n -> (0..MaxReq) \X (0..MaxReq)] :
              exam_schedule = [i \in 1..n |->
                  [date |-> i, first_half |-> req[i][1], second_half |-> req[i][2]]]
    /\ faculty_groups = <<>>
    /\ pc = "idle"
    /\ diag = NoDiag
    /\ solver_invoked = FALSE
    /\ ret = NotRun
    /\ df = <<>>
    /\ validation = NoValidation

\* "Add Group" with the multiselect holding new_group
AddGroup(new_group) ==
    /\ pc = "idle"
    /\ Len(faculty_groups) < MaxGroups
    /\ IF Cardinality(new_group) < 2
       THEN UNCHANGED faculty_groups
       ELSE IF \E i \in 1..Len(faculty_groups) : new_group = faculty_groups[i]
            THEN UNCHANGED faculty_groups
            ELSE faculty_groups' = Append(faculty_groups, new_group)
    /\ UNCHANGED <<max_duties_dict, faculty_unavailability, exam_schedule,
                   pc, diag, solver_invoked, ret, df, validation>>

\* "Delete Selected Group" with the selectbox on the group at idx
DeleteGroup(idx) ==
    /\ pc = "idle"
    /\ idx \in 1..Len(faculty_groups)
    /\ faculty_groups' = SubSeq(faculty_groups, 1, idx - 1)
                         \o SubSeq(faculty_groups, idx + 1, Len(faculty_groups))
    /\ UNCHANGED <<max_duties_dict, faculty_unavailability, exam_schedule,
                   pc, diag, solver_invoked, ret, df, validation>>

\* "Generate Assignments": diagnostics, then the solver, the unpacking of
\* its result and the validation of the table
GenerateAssignments ==
    /\ pc = "idle"
    /\ Len(exam_schedule) > 0
    /\ LET v == feasibility_verdict(total_required, total_available,
                                    slot_problems, day_problems)
       IN /\ diag' = [total_required |-> total_required,
                      total_available |-> total_available,
                      slot_problems |-> slot_problems,
                      day_problems |-> day_problems,
                      verdict |-> v]
          /\ IF v # "passed"
             THEN /\ pc' = "stopped"
                  /\ solver_invoked' = FALSE
                  /\ ret' = NotRun
                  /\ UNCHANGED <<df, validation>>
             ELSE LET r == generate_assignments_heuristic IN
                  /\ solver_invoked' = TRUE
                  /\ ret' = r
                  /\ pc' = IF ret'.none THEN "raised" ELSE "done"
                  /\ IF ret'.none
                     THEN UNCHANGED <<df, validation>>
                     ELSE /\ df' = ret'.rows
                          /\ validation' = validate_assignment_constraints(df')
    /\ UNCHANGED <<max_duties_dict, faculty_unavailability, faculty_groups,
                   exam_schedule>>

Next ==
    \/ \E g \in SUBSET Faculty : AddGroup(g)
    \/ \E i \in 1..MaxGroups : DeleteGroup(i)
    \/ GenerateAssignments

Spec == Init /\ [][Next]_vars

\* ------------------------------------------------- Manual Intervention
\* a session whose table is edited by hand: the inputs are in place, every
\* faculty with a quota of at least 1, every half requiring at most
\* MaxManualReq, at most one group; the Manual Intervention page is open
ManualInit ==
    /\ max_duties_dict \in [1..NumFaculty -> 1..MaxQuota]
    /\ \E M \in SubsetsUpTo(Marks, MaxUnavail) :
          faculty_unavailability =
              [f \in 1..NumFaculty |-> [l \in Labels |->
                  {d \in Dates : <<f, l, d>> \in M}]]
    /\ \E n \in 1..MaxDays :
          \E req \in [1..n -> (0..MaxManualReq) \X (0..MaxManualReq)] :
              exam_schedule = [i \in 1..n |->
                  [date |-> i, first_half |-> req[i][1], second_half |-> req[i][2]]]
    /\ \E G \in SUBSET (1..NumFaculty) :
          faculty_groups = IF Cardinality(G) < 2 THEN <<>> ELSE <<G>>
    /\ pc = "manual"
    /\ diag = NoDiag
    /\ solver_invoked = FALSE
    /\ ret = NotRun
    /\ df = <<>>
    /\ validation = NoValidation

\* the requirement the page looks up for a slot: 0 when the date is not in
\* the schedule
manual_required(date, shift) ==
    IF \E i \in 1..Len(exam_schedule) : exam_schedule[i].date = date
    THEN LET i == CHOOSE i \in 1..Len(exam_schedule) : exam_schedule[i].date = date
         IN IF shift = "First Half" THEN exam_schedule[i].first_half
            ELSE exam_schedule[i].second_half
    ELSE 0

\* the (date, shift, faculty) a multiselect entry stands for; the entries are
\* numbered slot by slot, slots by date and shift, faculty in roster order
NumCells == MaxDays * 2 * NumFaculty
cell_row(c) ==
    [Date |-> ((c - 1) \div (2 * NumFaculty)) + 1,
     Shift |-> Shifts[(((c - 1) \div NumFaculty) % 2) + 1],
     Faculty |-> ((c - 1) % NumFaculty) + 1]

\* new_assignments: the selections slot by slot
manual_rows(selected) == [i \in 1..Len(selected) |-> cell_row(selected[i])]

\* one run of the page with the multiselects holding `selected`, which after
\* the upload of a summary is what the summary lists (a date listed twice
\* for a faculty gives two entries): the selection of a slot with a
\* requirement is cut to that many entries
ManualIntervention(selected) ==
    /\ pc = "manual"
    /\ df' = manual_rows(selected)
    /\ \A d \in Dates : \A k \in 1..2 :
          LET required == manual_required(d, Shifts[k])
              count == Len(assigned_at(df', d, Shifts[k]))
          IN required > 0 => count <= required
    /\ validation' = validate_assignment_constraints(df')
    /\ pc' = "validated"
    /\ UNCHANGED <<max_duties_dict, faculty_unavailability, faculty_groups,
                   exam_schedule, diag, solver_invoked, ret>>

\* what the multiselects of the page can hold: at most MaxRows entries
Selections ==
    UNION {{sel \in [1..n -> 1..NumCells] :
               \A i, j \in 1..n : i < j => sel[i] <= sel[j]} : n \in 0..MaxRows}

ManualNext == \E selected \in Selections : ManualIntervention(selected)

ManualSpec == ManualInit /\ [][ManualNext]_vars

\* ---------------------------------------------------- worked scenarios
\* sessions of the size of the worked scenarios: a roster of ScenarioFaculty
\* faculty with quotas from 1 to ScenarioQuota (the quota of the scenarios
\* less a shortfall), no groups, every half of every exam day needing at
\* least one supervisor, and a set of faculty marked unavailable for both
\* halves of every date
ScenarioInit ==
    /\ \E short \in [1..ScenarioFaculty -> 0..(ScenarioQuota - 1)] :
          max_duties_dict = [f \in 1..ScenarioFaculty |-> ScenarioQuota - short[f]]
    /\ \E away \in SUBSET (1..ScenarioFaculty) :
          faculty_unavailability =
              [f \in 1..ScenarioFaculty |-> [l \in Labels |->
                  IF f \in away THEN Dates ELSE {}]]
    /\ \E n \in 1..MaxDays :
          \E req \in [1..n -> (1..MaxReq) \X (1..MaxReq)] :
              exam_schedule = [i \in 1..n |->
                  [date |-> i, first_half |-> req[i][1], second_half |-> req[i][2]]]
    /\ faculty_groups = <<>>
    /\ pc = "idle"
    /\ diag = NoDiag
    /\ solver_invoked = FALSE
    /\ ret = NotRun
    /\ df = <<>>
    /\ validation = NoValidation

ScenarioNext == GenerateAssignments

ScenarioSpec == ScenarioInit /\ [][ScenarioNext]_vars


\* ------------------------------------------------ vocabulary of the claims
RECURSIVE FnSum(_)
FnSum(fn) ==
    IF DOMAIN fn = {} THEN 0
    ELSE LET x == CHOOSE y \in DOMAIN fn : TRUE
         IN fn[x] + FnSum([y \in DOMAIN fn \ {x} |-> fn[y]])

Days == 1..Len(exam_schedule)
HalfOf(shift) == IF shift = "Second Half" THEN "second_half" ELSE "first_half"
ShiftNames == {"First Half", "Second Half"}

RowsAt(date, shift) ==
    {i \in 1..Len(ret.rows) : ret.rows[i].Date = date /\ ret.rows[i].Shift = shift}
FacultyAt(date, shift) == {ret.rows[i].Faculty : i \in RowsAt(date, shift)}
RowCount(f) == Cardinality({i \in 1..Len(ret.rows) : ret.rows[i].Faculty = f})
Required(i, shift) == exam_schedule[i][HalfOf(shift)]
Unavailable(f, date, shift) == date \in faculty_unavailability[f][HalfOf(shift)]

RequiredSum == FnSum([i \in Days |->
                  exam_schedule[i].first_half + exam_schedule[i].second_half])
QuotaSum == FnSum(max_duties_dict)

\* an assignment that satisfies the data-model invariants 1-6 exists: for
\* every day a set of faculty per half, of the required size, available,
\* group-whole, disjoint between the halves, within the quotas overall
GroupWhole(S) ==
    \A g \in 1..Len(faculty_groups) :
        S \cap faculty_groups[g] \in {{}, faculty_groups[g]}

Candidates(i, shift) ==
    {S \in SUBSET Faculty :
        /\ Cardinality(S) = Required(i, shift)
        /\ \A f \in S : ~Unavailable(f, exam_schedule[i].date, shift)
        /\ GroupWhole(S)}

RECURSIVE ValidFrom(_, _)
ValidFrom(i, counts) ==
    IF i > Len(exam_schedule) THEN TRUE
    ELSE \E A \in Candidates(i, "First Half") :
         \E B \in Candidates(i, "Second Half") :
            /\ A \cap B = {}
            /\ \A f \in A \cup B : counts[f] < max_duties_dict[f]
            /\ ValidFrom(i + 1, [f \in Faculty |->
                                    IF f \in A \cup B THEN counts[f] + 1
                                    ELSE counts[f]])

ExistsValidAssignment == ValidFrom(1, [f \in Faculty |-> 0])

\* a choice of units exists: for every slot exactly `required` units of the
\* catalog, pairwise member-disjoint, no member unavailable, no faculty in
\* both halves of a date, no faculty over its quota in total
UnitIds == 1..Len(assign_units)
MembersOf(U) == UNION {Range(assign_units[u]) : u \in U}

UnitChoices(i, shift) ==
    {U \in SUBSET UnitIds :
        /\ Cardinality(U) = Required(i, shift)
        /\ \A u, v \in U : u # v =>
               Range(assign_units[u]) \cap Range(assign_units[v]) = {}
        /\ \A f \in MembersOf(U) : ~Unavailable(f, exam_schedule[i].date, shift)}

RECURSIVE ChoiceFrom(_, _)
ChoiceFrom(i, counts) ==
    IF i > Len(exam_schedule) THEN TRUE
    ELSE \E U \in UnitChoices(i, "First Half") :
         \E V \in UnitChoices(i, "Second Half") :
            /\ MembersOf(U) \cap MembersOf(V) = {}
            /\ \A f \in MembersOf(U) \cup MembersOf(V) :
                   counts[f] < max_duties_dict[f]
            /\ ChoiceFrom(i + 1, [f \in Faculty |->
                                     IF f \in MembersOf(U) \cup MembersOf(V)
                                     THEN counts[f] + 1 ELSE counts[f]])

ExistsUnitChoice == ChoiceFrom(1, [f \in Faculty |-> 0])

SlotShort ==
    \E i \in Days : \E s \in ShiftNames :
        Required(i, s) > Cardinality({f \in Faculty :
            /\ max_duties_dict[f] > 0
            /\ ~Unavailable(f, exam_schedule[i].date, s)})

DayShort ==
    \E i \in Days :
        exam_schedule[i].first_half + exam_schedule[i].second_half
            > Cardinality({f \in Faculty :
                  /\ max_duties_dict[f] > 0
                  /\ \A s \in ShiftNames : ~Unavailable(f, exam_schedule[i].date, s)})

\* ------------------------------------------------------------- claims
\* C1: in a complete assignment returned by the backtracking solver every
\* slot with required > 0 holds exactly `required` rows, each group member
\* counting as one row.
C1_RowsEqualRequired ==
    (pc = "done" /\ ret.found) =>
        \A i \in Days : \A s \in ShiftNames :
            Required(i, s) > 0 =>
                Cardinality(RowsAt(exam_schedule[i].date, s)) = Required(i, s)

\* C2: for every input that passes the feasibility diagnostics, the call of
\* generate_assignments_heuristic and the unpacking of its result complete
\* without raising.
C2_NeverRaises == diag.verdict = "passed" => pc # "raised"

\* C3: the feasibility diagnostics are a necessary condition: whenever an
\* assignment satisfying the data-model invariants 1-6 exists, the run is
\* reported feasible.
C3_AnalyzerNecessary ==
    (pc = "stopped" /\ ExistsValidAssignment) => diag.verdict = "passed"

\* C4: if the sum of the required headcounts exceeds the sum of maxDuties,
\* the diagnostics report infeasible and generate_assignments_heuristic is
\* not invoked in that run.
C4_CapacityGate ==
    (pc # "idle" /\ RequiredSum > QuotaSum) =>
        (diag.verdict # "passed" /\ pc = "stopped" /\ ~solver_invoked)

C4_Witness ==
    /\ pc = "stopped"
    /\ RequiredSum > QuotaSum
    /\ ~SlotShort
    /\ ~DayShort

\* C5: the solver is invoked only if the diagnostics report feasible, and
\* they report infeasible whenever a slot requires more than the number of
\* positive-quota faculty not unavailable for it, or a day requires more than
\* the number of positive-quota faculty unavailable for neither half.
C5_SolverOnlyIfFeasible ==
    pc # "idle" =>
        /\ solver_invoked => diag.verdict = "passed"
        /\ (SlotShort \/ DayShort) => (diag.verdict # "passed" /\ ~solver_invoked)

\* one day needing MaxReq/0 with MaxReq - 1 positive-quota faculty whose
\* quotas cover the total: the slot check alone stops the run
C5_Witness ==
    /\ pc = "stopped"
    /\ Len(exam_schedule) = 1
    /\ exam_schedule[1].first_half = MaxReq
    /\ exam_schedule[1].second_half = 0
    /\ Cardinality({f \in Faculty : max_duties_dict[f] > 0}) = MaxReq - 1
    /\ RequiredSum <= QuotaSum
    /\ diag.verdict = "slot_or_day"
    /\ ~solver_invoked

\* C6: in every assignment returned by the backtracking solver or the greedy
\* fallback each faculty has at most maxDuties rows.
C6_QuotaRespected ==
    pc = "done" => \A f \in Faculty : RowCount(f) <= max_duties_dict[f]

\* the fallback returned with a slot underfilled although a faculty who is
\* not unavailable for it, and not on duty that day, is at its quota
C6_Witness ==
    /\ pc = "done"
    /\ ret.greedy
    /\ \E k \in 1..Len(ret.underfilled) : \E f \in Faculty :
          /\ max_duties_dict[f] > 0
          /\ RowCount(f) = max_duties_dict[f]
          /\ ~Unavailable(f, ret.underfilled[k].date, ret.underfilled[k].shift)
          /\ \A s \in ShiftNames : f \notin FacultyAt(ret.underfilled[k].date, s)

\* C7: in every returned assignment, for every group of the group list and
\* every (date, shift), the group's members assigned to the slot are none or
\* all of the group.
C7_GroupAtomicity ==
    pc = "done" =>
        \A g \in 1..Len(faculty_groups) : \A i \in Days : \A s \in ShiftNames :
            FacultyAt(exam_schedule[i].date, s) \cap faculty_groups[g]
                \in {{}, faculty_groups[g]}

C10_NoUnavailableRow ==
    pc = "done" =>
        \A k \in 1..Len(ret.rows) :
            ~Unavailable(ret.rows[k].Faculty, ret.rows[k].Date, ret.rows[k].Shift)

\* a slot stayed underfilled although a faculty with quota left, off duty
\* that day, would fill it were it not unavailable for that half
C10_Witness ==
    /\ pc = "done"
    /\ \E k \in 1..Len(ret.underfilled) : \E f \in Faculty :
          LET u == ret.underfilled[k] IN
          /\ RowCount(f) < max_duties_dict[f]
          /\ Unavailable(f, u.date, u.shift)
          /\ \A s \in ShiftNames : f \notin FacultyAt(u.date, s)

C12_FallbackIffSearchFailed ==
    (pc \in {"done", "raised"} /\ ret.searched) =>
        /\ ret.greedy <=> ~ret.found
        /\ ret.found => ret.underfilled = <<>>
        /\ ~ret.found => pc = "done"

\* the search was exhausted and the fallback returned a table with a
\* shortfall
C12_Witness ==
    /\ pc = "done"
    /\ ret.searched /\ ~ret.found /\ ret.greedy
    /\ ret.rows # <<>>
    /\ ret.underfilled # <<>>

\* the faculty a returned table holds for a slot, in row order, and the
\* search state the rows of the slots before the k-th slot of ss amount to
SlotRows(slot) ==
    SelectSeq(ret.rows, LAMBDA r : r.Date = slot.date /\ r.Shift = slot.shift)
SlotFaculty(slot) ==
    LET rows == SlotRows(slot) IN [j \in 1..Len(rows) |-> rows[j].Faculty]
EarlierRows(ss, k) ==
    {i \in 1..Len(ret.rows) :
        \E j \in 1..(k - 1) : /\ ret.rows[i].Date = ss[j].date
                              /\ ret.rows[i].Shift = ss[j].shift}
StateBefore(ss, k) ==
    LET earlier == EarlierRows(ss, k) IN
    [duty_counts |-> [f \in Faculty |->
         Cardinality({i \in earlier : ret.rows[i].Faculty = f})],
     assigned_slots |-> {<<ret.rows[i].Date, ret.rows[i].Shift,
                           ret.rows[i].Faculty>> : i \in earlier},
     assignment |-> <<>>]
\* the units available for the k-th slot when the pass reaches it, in the
\* order the pass walks them, and the units it chooses among them
AvailableAt(ss, k) ==
    LET st == StateBefore(ss, k) IN
    sorted_by_load(available_units(ss[k].date, ss[k].shift, st), st.duty_counts)
ChosenAt(ss, k) == greedy_choose(AvailableAt(ss, k), ss[k].required, <<>>, {})
UnderfilledAt(slot) ==
    {j \in 1..Len(ret.underfilled) : /\ ret.underfilled[j].date = slot.date
                                     /\ ret.underfilled[j].shift = slot.shift}

\* C13: the greedy pass processes every slot of slots_sorted whatever fell
\* short before: each slot is given the units chosen for it in the state the
\* earlier slots left, and the underfilled list holds, in slot order, one
\* record (date, shift, required, number chosen) for exactly the slots with
\* fewer than required chosen units.
C13_GreedyCoversEverySlot ==
    (pc = "done" /\ ret.greedy) =>
        LET ss == slots_sorted IN
        /\ \A k \in 1..Len(ss) :
              LET chosen == ChosenAt(ss, k)
                  under == UnderfilledAt(ss[k])
              IN /\ SlotFaculty(ss[k]) = Flatten(chosen)
                 /\ IF Len(chosen) < ss[k].required
                    THEN /\ Cardinality(under) = 1
                         /\ \A j \in under :
                               /\ ret.underfilled[j].required = ss[k].required
                               /\ ret.underfilled[j].assigned = Len(chosen)
                    ELSE under = {}
        /\ \A j \in 1..Len(ret.underfilled) :
              \E k \in 1..Len(ss) : j \in UnderfilledAt(ss[k])
        /\ \A a, b \in 1..Len(ss) :
              a < b => \A i \in UnderfilledAt(ss[a]) :
                           \A j \in UnderfilledAt(ss[b]) : i < j

\* a slot fell short, and a slot after it in slots_sorted was filled to its
\* requirement
C13_Witness ==
    /\ pc = "done" /\ ret.greedy
    /\ LET ss == slots_sorted IN
       \E a, b \in 1..Len(ss) :
          /\ a < b
          /\ UnderfilledAt(ss[a]) # {}
          /\ Len(SlotRows(ss[b])) = ss[b].required

PairwiseDisjoint(units) ==
    \A a, b \in 1..Len(units) : a # b => Range(units[a]) \cap Range(units[b]) = {}
Min(a, b) == IF a <= b THEN a ELSE b

\* C15: the greedy pass leaves no slot short while a usable unit remains:
\* when a slot ends with fewer than required chosen units, every unit that
\* was available for it when it was processed was chosen or shares a member
\* with a chosen unit; when the available units are pairwise disjoint, the
\* number of chosen units is min(required, number of available units).
C15_NoWastedUnit ==
    (pc = "done" /\ ret.greedy) =>
        LET ss == slots_sorted IN
        \A k \in 1..Len(ss) :
            LET avail == AvailableAt(ss, k)
                onduty == Range(SlotFaculty(ss[k]))
                whole == {i \in 1..Len(avail) : Range(avail[i]) \subseteq onduty}
            IN /\ UnderfilledAt(ss[k]) # {} =>
                     \A i \in 1..Len(avail) : Range(avail[i]) \cap onduty # {}
               /\ PairwiseDisjoint(avail) =>
                     /\ Cardinality(whole) = Min(ss[k].required, Len(avail))
                     /\ \A j \in UnderfilledAt(ss[k]) :
                           ret.underfilled[j].assigned = Len(avail)

\* a slot fell short with an available unit left out, which shares a member
\* with a chosen unit
C15_Witness ==
    /\ pc = "done" /\ ret.greedy
    /\ LET ss == slots_sorted IN
       \E k \in 1..Len(ss) :
          LET avail == AvailableAt(ss, k)
              onduty == Range(SlotFaculty(ss[k]))
          IN /\ UnderfilledAt(ss[k]) # {}
             /\ onduty # {}
             /\ \E i \in 1..Len(avail) : ~(Range(avail[i]) \subseteq onduty)

\* C14 (supporting fact): a greedy pass that runs assigns at least one
\* faculty, and the call then returns a table
C14_GreedyNeverEmpty ==
    (pc \in {"done", "raised"} /\ ret.greedy) => (pc = "done" /\ ret.rows # <<>>)

\* ------------------------------------- vocabulary of the validator claims
\* the rules of the validator, stated on the table that was validated
TableRows == 1..Len(df)
OnDuty(f, date, shift) ==
    \E i \in TableRows :
        df[i].Faculty = f /\ df[i].Date = date /\ df[i].Shift = shift
RowsOf(f) == {i \in TableRows : df[i].Faculty = f}
RowsIn(date, shift) ==
    {i \in TableRows : df[i].Date = date /\ df[i].Shift = shift}
Kinds == {validation.errors[j].kind : j \in 1..Len(validation.errors)}
MessagesOf(kind) ==
    {j \in 1..Len(validation.errors) : validation.errors[j].kind = kind}

ViolatesUnavailability ==
    \E i \in TableRows : Unavailable(df[i].Faculty, df[i].Date, df[i].Shift)
ViolatesQuota ==
    \E f \in Faculty : Cardinality(RowsOf(f)) > max_duties_dict[f]
ViolatesCohesion ==
    \E g \in 1..Len(faculty_groups) : \E d \in Dates : \E s \in ShiftNames :
        /\ \E f \in faculty_groups[g] : OnDuty(f, d, s)
        /\ \E f \in faculty_groups[g] : ~OnDuty(f, d, s)
ViolatesRequired ==
    \E i \in Days : \E s \in ShiftNames :
        Cardinality(RowsIn(exam_schedule[i].date, s)) # Required(i, s)
BothHalves ==
    {p \in Faculty \X Dates :
        OnDuty(p[1], p[2], "First Half") /\ OnDuty(p[1], p[2], "Second Half")}
ViolatesBothHalves == BothHalves # {}
NoRepeatedRow == \A i, j \in TableRows : i # j => df[i] # df[j]

\* C17: validate_assignment_constraints evaluates all five checks, none
\* cut short by what another found: a table that breaks a rule gets a
\* message of that rule's kind whatever else it breaks; and is_valid is
\* false if and only if the message list is not empty.
C17_AllChecksRun ==
    pc = "validated" =>
        /\ validation.is_valid <=> validation.errors = <<>>
        /\ ViolatesUnavailability => "unavailable" \in Kinds
        /\ ViolatesQuota => "quota" \in Kinds
        /\ ViolatesCohesion => "group" \in Kinds
        /\ ViolatesRequired => "required" \in Kinds
        /\ ViolatesBothHalves => "double" \in Kinds

\* a table that breaks all five rules at once
C17_Witness ==
    /\ pc = "validated"
    /\ ViolatesUnavailability /\ ViolatesQuota /\ ViolatesCohesion
    /\ ViolatesRequired /\ ViolatesBothHalves
    /\ Kinds = {"unavailable", "quota", "group", "required", "double"}
    /\ ~validation.is_valid

ViolatedRules ==
    (IF ViolatesUnavailability THEN {"unavailable"} ELSE {})
    \cup (IF ViolatesQuota THEN {"quota"} ELSE {})
    \cup (IF ViolatesCohesion THEN {"group"} ELSE {})
    \cup (IF ViolatesRequired THEN {"required"} ELSE {})
    \cup (IF ViolatesBothHalves THEN {"double"} ELSE {})

\* C18: for a table that breaks exactly one of the five rules of the
\* validator and keeps the other four, the messages are of that rule's kind
\* and of no other kind.
C18_OnlyTheBrokenRule ==
    (pc = "validated" /\ Cardinality(ViolatedRules) = 1) =>
        Kinds = ViolatedRules

\* the same, for tables that hold no row twice
C18_OnlyTheBrokenRuleNoRepeat ==
    (pc = "validated" /\ NoRepeatedRow /\ Cardinality(ViolatedRules) = 1) =>
        Kinds = ViolatedRules

DoubleMessagesOf(f, d) ==
    {j \in MessagesOf("double") : /\ validation.errors[j].who = <<f>>
                                  /\ validation.errors[j].date = d}

\* C19: the double-booking list holds the pair (faculty, date) exactly when
\* the faculty has a row in the First Half and a row in the Second Half of
\* that date; each such pair has one message and makes is_valid false; no
\* pair is listed, and no message given, for a faculty who is in one half
\* only of the date.
C19_DoubleBookingList ==
    pc = "validated" =>
        /\ validation.same_day_double = BothHalves
        /\ \A p \in Faculty \X Dates :
              Cardinality(DoubleMessagesOf(p[1], p[2]))
                  = IF p \in BothHalves THEN 1 ELSE 0
        /\ BothHalves # {} => ~validation.is_valid

\* the same, for tables that hold no row twice
C19_DoubleBookingListNoRepeat ==
    (pc = "validated" /\ NoRepeatedRow) =>
        /\ validation.same_day_double = BothHalves
        /\ \A p \in Faculty \X Dates :
              Cardinality(DoubleMessagesOf(p[1], p[2]))
                  = IF p \in BothHalves THEN 1 ELSE 0
        /\ BothHalves # {} => ~validation.is_valid

RequiredMessagesOf(date, shift) ==
    {j \in MessagesOf("required") : /\ validation.errors[j].date = date
                                    /\ validation.errors[j].shift = shift}

\* C20: for every exam day and each half, the validator gives a
\* required-count message, with the number of rows and the required number,
\* if and only if the number of rows of that (date, shift) differs from the
\* requirement, and gives one message per such slot; it gives none for a
\* date that is not in the schedule.
C20_RequiredCountMessages ==
    pc = "validated" =>
        /\ \A i \in Days : \A s \in ShiftNames :
              LET count == Cardinality(RowsIn(exam_schedule[i].date, s))
                  msgs == RequiredMessagesOf(exam_schedule[i].date, s)
              IN IF count # Required(i, s)
                 THEN /\ Cardinality(msgs) = 1
                      /\ \A j \in msgs : /\ validation.errors[j].n = count
                                         /\ validation.errors[j].m = Required(i, s)
                 ELSE msgs = {}
        /\ \A j \in MessagesOf("required") :
              \E i \in Days : validation.errors[j].date = exam_schedule[i].date

\* one half holds more rows than required, another fewer, a third as many
\* as required
C20_Witness ==
    /\ pc = "validated"
    /\ \E i, j, k \in Days : \E s, t, u \in ShiftNames :
          /\ Cardinality(RowsIn(exam_schedule[i].date, s)) > Required(i, s)
          /\ Cardinality(RowsIn(exam_schedule[j].date, t)) < Required(j, t)
          /\ Cardinality(RowsIn(exam_schedule[k].date, u)) = Required(k, u)
          /\ Required(k, u) > 0
    /\ Cardinality(MessagesOf("required")) = 2

\* ------------------------------------------------------------------ C21
\* the session is the first worked scenario: five faculty of quota 3, two
\* exam days needing 2/2, nobody unavailable
NobodyAway ==
    \A f \in Faculty : \A l \in Labels : faculty_unavailability[f][l] = {}
FiveOfQuotaThree ==
    /\ Cardinality(Faculty) = 5
    /\ \A f \in Faculty : max_duties_dict[f] = 3
TwoDaysTwoTwo ==
    /\ Len(exam_schedule) = 2
    /\ \A i \in 1..2 : exam_schedule[i].first_half = 2
                        /\ exam_schedule[i].second_half = 2

Away == {f \in Faculty : \A l \in Labels : faculty_unavailability[f][l] = {1, 2}}
OneAway ==
    /\ Cardinality(Away) = 1
    /\ \A f \in Faculty \ Away : \A l \in Labels :
          faculty_unavailability[f][l] = {}
SecondScenario == FiveOfQuotaThree /\ TwoDaysTwoTwo /\ OneAway
Finished == pc \in {"stopped", "raised", "done"}
ScenarioCompletes ==
    /\ diag.verdict = "passed"
    /\ pc = "done"
    /\ ret.found /\ ~ret.greedy /\ ret.underfilled = <<>>
    /\ Len(df) = 8
    /\ \A f \in Away : RowCount(f) = 0
    /\ validation.is_valid

\* C22: in the second worked scenario the checks pass, the search
\* completes an 8-row table without fallback or underfilled slot, the table
\* is valid, and every one of the 4 remaining faculty has as many duties as
\* its quota
C22_QuotaExactlyMet ==
    (Finished /\ SecondScenario) =>
        /\ ScenarioCompletes
        /\ \A f \in Faculty \ Away : RowCount(f) = max_duties_dict[f]

\* C22 as the code has it: every one of the 4 remaining faculty has 2
\* duties, one on each day, which is below its quota of 3
C22_OneDutyPerDay ==
    (Finished /\ SecondScenario) =>
        /\ ScenarioCompletes
        /\ \A f \in Faculty \ Away :
              /\ RowCount(f) = 2
              /\ RowCount(f) < max_duties_dict[f]
              /\ \A d \in 1..2 :
                    Cardinality({i \in 1..Len(df) :
                        df[i].Faculty = f /\ df[i].Date = d}) = 1

C22_Witness ==
    /\ pc = "done"
    /\ SecondScenario
    /\ ScenarioCompletes
    /\ \A f \in Faculty \ Away : RowCount(f) = 2

\* ------------------------------------------------------------------ C23
\* the units of the catalog that hold faculty f
UnitsHolding(f) == {u \in 1..Len(assign_units) : f \in Range(assign_units[u])}
GroupsDisjoint ==
    \A a, b \in 1..Len(faculty_groups) :
        a # b => faculty_groups[a] \cap faculty_groups[b] = {}

\* C23: whatever faculty list and group list the solver is called with,
\* every faculty of the list is in exactly one unit of the catalog.
C23_ExactlyOneUnit ==
    solver_invoked => \A f \in Faculty : Cardinality(UnitsHolding(f)) = 1

\* the same for the group lists that are pairwise disjoint; the catalog is
\* then the groups in stored order followed by the ungrouped faculty in
\* roster order
C23_ExactlyOneUnitDisjoint ==
    (solver_invoked /\ GroupsDisjoint) =>
        /\ \A f \in Faculty : Cardinality(UnitsHolding(f)) = 1
        /\ \A g \in 1..Len(faculty_groups) :
              assign_units[g] = SortedTuple(faculty_groups[g])
        /\ \A u \in (Len(faculty_groups) + 1)..Len(assign_units) :
              /\ Len(assign_units[u]) = 1
              /\ assign_units[u][1] \notin UNION Range(faculty_groups)
              /\ u < Len(assign_units) =>
                    assign_units[u][1] < assign_units[u + 1][1]

\* ------------------------------------------------------------------ C29
\* C29: after any sequence of Add Group and Delete Group operations the
\* stored groups are pairwise disjoint.
C29_GroupsDisjoint == GroupsDisjoint

\* what Add Group does keep: every stored group has at least two members
\* and no group is stored twice
C29_NoSmallNoRepeatedGroup ==
    /\ \A g \in 1..Len(faculty_groups) : Cardinality(faculty_groups[g]) >= 2
    /\ \A a, b \in 1..Len(faculty_groups) :
          a # b => faculty_groups[a] # faculty_groups[b]

\* ------------------------------------------------------------------ C24
\* the calls of the search of this run
SearchCalls(ss) == backtrack_calls(1, ss, fresh_state)
\* two search states hold the same duty_counts, assigned_slots and assignment
SameState(a, b) ==
    /\ \A f \in Faculty : a.duty_counts[f] = b.duty_counts[f]
    /\ a.assigned_slots = b.assigned_slots
    /\ a.assignment = b.assignment

LineKinds(out) == {out[i].kind : i \in 1..Len(out)}
SlotOrDayKinds == {"slot", "slot_warning", "day", "day_error"}
LinesOfKind(out, kind) == {i \in 1..Len(out) : out[i].kind = kind}

\* C25: when the global capacity check fails the analyzer aborts at once:
\* the global check is reported first and the run writes no line and no
\* warning of the slot check or of the day check.
C25_AbortsOnGlobalFailure ==
    diag.verdict = "total_exceeds" =>
        LET out == diagnostics_output IN
        /\ LineKinds(out) \cap SlotOrDayKinds = {}
        /\ \A i \in 1..Len(out) :
              out[i].kind \in {"slot_warning", "day_error"} =>
                  \E j \in 1..(i - 1) : out[j].kind = "total_exceeds"

\* what the run does when the global check fails: both loops have run over
\* the whole schedule, their warnings come before the global error, the
\* global error is the last line, and generate_assignments_heuristic is not
\* called
C25_GlobalErrorComesLast ==
    diag.verdict = "total_exceeds" =>
        LET out == diagnostics_output IN
        /\ pc = "stopped" /\ ~solver_invoked
        /\ out[Len(out)].kind = "total_exceeds"
        /\ "slot_or_day" \notin LineKinds(out)
        /\ Cardinality(LinesOfKind(out, "slot")) = 2 * Len(exam_schedule)
        /\ Cardinality(LinesOfKind(out, "day")) = Len(exam_schedule)
        /\ (diag.slot_problems <=> LinesOfKind(out, "slot_warning") # {})
        /\ (diag.day_problems <=> LinesOfKind(out, "day_error") # {})

\* ------------------------------------------------------------------ C26
HardKinds == {"unavailable", "quota", "group", "required"}
KindsIn(msgs) == {msgs[i].kind : i \in 1..Len(msgs)}

\* C26: in the split of the validator's messages a message is a warning
\* only if it is a double-booking message; every unavailability, quota,
\* group and required-count message is an error, so a table with such a
\* message is stored only through the override.
C26_OnlyDoubleBookingWarns ==
    pc \in {"done", "validated"} =>
        /\ KindsIn(warning_msgs(validation)) \subseteq {"double"}
        /\ (Kinds \cap HardKinds # {} => needs_override(validation))

\* what the split does: a double-booking message is always a warning, a
\* required-count message is always an error, and a message of another
\* kind is a warning exactly when it names a faculty of the double-booking
\* list
C26_SplitByNamedFaculty ==
    pc \in {"done", "validated"} =>
        LET w == warning_msgs(validation)
            e == error_msgs(validation)
        IN /\ Len(w) + Len(e) = Len(validation.errors)
           /\ "double" \notin KindsIn(e)
           /\ "required" \notin KindsIn(w)
           /\ \A i \in 1..Len(validation.errors) :
                 LET err == validation.errors[i] IN
                 err.kind \in {"unavailable", "quota", "group"} =>
                     ((\E j \in 1..Len(w) : w[j] = err)
                        <=> \E p \in validation.same_day_double :
                               p[1] \in Range(err.who))

\* ------------------------------------------------------------------ C27
\* why a member keeps a unit out of a slot in search state st
HasQuotaLeft(f, st) == st.duty_counts[f] < max_duties_dict[f]
InOtherHalf(f, date, shift, st) ==
    \E t \in st.assigned_slots : t[1] = date /\ t[2] # shift /\ t[3] = f
MemberFree(f, date, shift, st) ==
    /\ ~Unavailable(f, date, shift)
    /\ HasQuotaLeft(f, st)
    /\ ~InOtherHalf(f, date, shift, st)

\* C27: unit_available(unit, date, shift) is true exactly when every member
\* of the unit is not marked unavailable for that half of the date, has a
\* duty count below its maxDuties, and is not assigned to the other half of
\* the date.  (Checked for every unit of the catalog and every half of the
\* schedule in the state every call of the search was entered with.)
C27_UnitAvailable ==
    ret.searched =>
        LET ss == slots_sorted
            calls == SearchCalls(ss).calls
        IN \A c \in 1..Len(calls) : \A u \in 1..Len(assign_units) :
             \A i \in Days : \A s \in ShiftNames :
                unit_available(assign_units[u], exam_schedule[i].date, s,
                               calls[c].entry.duty_counts,
                               calls[c].entry.assigned_slots)
                <=> \A f \in Range(assign_units[u]) :
                       MemberFree(f, exam_schedule[i].date, s, calls[c].entry)

\* a run whose search met, for a group of two, each of the three reasons on
\* its own: one member is free and the other is kept out by its
\* unavailability only, by its quota only, by the other half only
C27_Witness ==
    /\ ret.searched
    /\ LET ss == slots_sorted
           calls == SearchCalls(ss).calls
           Cases == {<<c, u, i, s>> \in (1..Len(calls)) \X (1..Len(assign_units))
                                        \X Days \X ShiftNames :
                        Len(assign_units[u]) = 2}
           Blocked(x, f) ==
               /\ f \in Range(assign_units[x[2]])
               /\ \E g \in Range(assign_units[x[2]]) :
                     g # f /\ MemberFree(g, exam_schedule[x[3]].date, x[4],
                                         calls[x[1]].entry)
               /\ ~unit_available(assign_units[x[2]], exam_schedule[x[3]].date,
                                  x[4], calls[x[1]].entry.duty_counts,
                                  calls[x[1]].entry.assigned_slots)
       IN /\ \E x \in Cases : \E f \in Faculty :
                /\ Blocked(x, f)
                /\ Unavailable(f, exam_schedule[x[3]].date, x[4])
                /\ HasQuotaLeft(f, calls[x[1]].entry)
                /\ ~InOtherHalf(f, exam_schedule[x[3]].date, x[4], calls[x[1]].entry)
          /\ \E x \in Cases : \E f \in Faculty :
                /\ Blocked(x, f)
                /\ ~Unavailable(f, exam_schedule[x[3]].date, x[4])
                /\ ~HasQuotaLeft(f, calls[x[1]].entry)
                /\ ~InOtherHalf(f, exam_schedule[x[3]].date, x[4], calls[x[1]].entry)
          /\ \E x \in Cases : \E f \in Faculty :
                /\ Blocked(x, f)
                /\ ~Unavailable(f, exam_schedule[x[3]].date, x[4])
                /\ HasQuotaLeft(f, calls[x[1]].entry)
                /\ InOtherHalf(f, exam_schedule[x[3]].date, x[4], calls[x[1]].entry)

\* ------------------------------------------------------------------ C28
\* the halves that need somebody, the place of a half in the schedule, and
\* the number of units all of whose members are not marked unavailable for
\* the half and have a quota (duty counts zero, nothing assigned)
PositiveSlots ==
    {<<i, s>> \in Days \X ShiftNames : Required(i, s) > 0}
SchedulePos(date, shift) ==
    2 * (CHOOSE i \in Days : exam_schedule[i].date = date)
      + (IF shift = "First Half" THEN 0 ELSE 1)
FreshCount(date, shift) ==
    Cardinality({u \in 1..Len(assign_units) :
        \A f \in Range(assign_units[u]) :
            ~Unavailable(f, date, shift) /\ max_duties_dict[f] > 0})
ComesBefore(a, b) ==
    \/ FreshCount(a.date, a.shift) < FreshCount(b.date, b.shift)
    \/ /\ FreshCount(a.date, a.shift) = FreshCount(b.date, b.shift)
       /\ SchedulePos(a.date, a.shift) < SchedulePos(b.date, b.shift)
\* the place of the slot of a row in the order ss
PlaceOf(ss, row) ==
    CHOOSE k \in 1..Len(ss) : ss[k].date = row.Date /\ ss[k].shift = row.Shift

\* C28: the slot order of the search and of the greedy pass is the halves
\* with required > 0, ascending by the number of units available with all
\* duty counts zero and nothing assigned, halves with equal numbers in
\* schedule order; the entries of the returned assignment follow it.
C28_SlotOrder ==
    ret.searched =>
        LET ss == slots_sorted IN
        /\ Len(ss) = Cardinality(PositiveSlots)
        /\ \A p \in PositiveSlots : \E k \in 1..Len(ss) :
              /\ ss[k].date = exam_schedule[p[1]].date
              /\ ss[k].shift = p[2]
              /\ ss[k].required = Required(p[1], p[2])
        /\ \A k \in 1..(Len(ss) - 1) : ComesBefore(ss[k], ss[k + 1])
        /\ \A i, j \in 1..Len(ret.rows) :
              i < j => PlaceOf(ss, ret.rows[i]) <= PlaceOf(ss, ret.rows[j])
        /\ ret.found => \A k \in 1..Len(ss) :
              \E i \in 1..Len(ret.rows) : PlaceOf(ss, ret.rows[i]) = k

\* a greedy run (the search failed over the same order) whose order differs
\* from the schedule order, holds two halves with equal numbers, and whose
\* table has rows of two halves
C28_Witness ==
    /\ ret.greedy
    /\ LET ss == slots_sorted IN
       /\ ss # slots
       /\ \E k \in 1..(Len(ss) - 1) :
             FreshCount(ss[k].date, ss[k].shift)
                 = FreshCount(ss[k + 1].date, ss[k + 1].shift)
       /\ \E i, j \in 1..Len(ret.rows) :
             PlaceOf(ss, ret.rows[i]) < PlaceOf(ss, ret.rows[j])

\* ------------------------------------------------------------------ C30
\* the triples of the entries of an assignment list
TriplesOf(assignment) ==
    UNION {{<<assignment[e].date, assignment[e].shift, assignment[e].faculty[j]>> :
               j \in 1..Len(assignment[e].faculty)} : e \in 1..Len(assignment)}
Consistent(st) ==
    /\ \A f \in Faculty :
          /\ st.duty_counts[f] = Cardinality({t \in st.assigned_slots : t[3] = f})
          /\ st.duty_counts[f] >= 0
          /\ st.duty_counts[f] <= max_duties_dict[f]
    /\ st.assigned_slots = TriplesOf(st.assignment)
\* the state of the greedy pass after its first k slots
GreedyAfter(ss, k) ==
    greedy_pass(SubSeq(ss, 1, k), [st |-> fresh_state, underfilled |-> <<>>]).st

============================================================================
